---- MODULE Spec2Model ----
(***************************************************************************)
(* Model of the htmlcheck validator (src/htmlcheck.go): the tag registry,  *)
(* the per-token check with its parent stack, the driving loop of          *)
(* ValidateHtml and the end-of-input sweep.  The tokenizer is an external  *)
(* collaborator: the model reads tokens one at a time from a bounded       *)
(* alphabet and records them in `consumed`.                                *)
(***************************************************************************)
EXTENDS Integers, Sequences, FiniteSets, TLC

\* Size of an input: tokens plus attribute occurrences.
MaxInput == 4

\* Length of a text and number of violations handed to updateLineColumns.
MaxText == 3
MaxErrors == 2

\* Number of AddValidTag calls on one validator.
MaxRegs == 3

\* ErrorReason, src/htmlcheck.go:17-24
InvTag == 0
InvAttribute == 1
InvClosedBeforeOpened == 2
InvNotProperlyClosed == 3
InvDuplicatedAttribute == 4
InvEOF == 5

\* html.TokenType values used by checkToken
TextToken == "Text"
StartTagToken == "StartTag"
EndTagToken == "EndTag"
SelfClosingTagToken == "SelfClosingTag"

TagTokenTypes == {StartTagToken, EndTagToken, SelfClosingTagToken}

\* Tag names and attribute keys the tokenizer may deliver.  "art" is never
\* registered; "href" is allowed on a only, "id" on b and c only.
TagNames == {"a", "b", "c", "art"}
AttrKeys == {"href", "id"}

\* The rules registered by TestMain (src/htmlcheck_test.go:10-25).
TestRules ==
    << [Name |-> "a", Attrs |-> <<"href">>, AttrRegEx |-> "", IsSelfClosing |-> TRUE],
       [Name |-> "b", Attrs |-> <<"id">>, AttrRegEx |-> "", IsSelfClosing |-> FALSE],
       [Name |-> "c", Attrs |-> <<"id">>, AttrRegEx |-> "", IsSelfClosing |-> FALSE] >>

VARIABLES
    validTagMap,            \* Validator.validTagMap: tag name -> set of attribute names
    validSelfClosingTags,   \* Validator.validSelfClosingTags: set of tag names
    validTags,              \* Validator.validTags: tag name -> rule
    errorCallback,          \* Validator.errorCallback: "nil" or "suppress"
    StopAfterFirstError,    \* Validator.StopAfterFirstError
    consumed,               \* tokens the tokenizer d has delivered so far
    parents,                \* ValidateHtml's parents
    errors,                 \* ValidateHtml's errors
    calls,                  \* number of invocations of the registered callback
    pc,                     \* "loop", "stopped" (return at line 228), "done" (return at line 237);
                            \* "setup" while the caller registers rules; "translate" and
                            \* "returned" around updateLineColumns
    derr,                   \* what ended the tokenizer d: "nil", "EOF" or "failure"
    added,                  \* the rules the caller has passed to AddValidTag, in order
    str                     \* ValidateHtmlString's str, a sequence of characters

vars == << validTagMap, validSelfClosingTags, validTags, errorCallback,
           StopAfterFirstError, consumed, parents, errors, calls, pc, derr,
           added, str >>

registry == << validTagMap, validSelfClosingTags, validTags, errorCallback,
               StopAfterFirstError >>

----------------------------------------------------------------------------
\* Go maps as functions

EmptyMap == << >>

Put(m, k, val) == [x \in (DOMAIN m) \cup {k} |-> IF x = k THEN val ELSE m[x]]

Range(s) == {s[i] : i \in DOMAIN s}

\* AddOneTag that never records a tag as self-closing.
AddOneTagNoSelfClosing(v, tag) ==
    [validSelfClosingTags |-> v.validSelfClosingTags,
     validTagMap |-> Put(v.validTagMap, tag.Name, Range(tag.Attrs)),
     validTags |-> Put(v.validTags, tag.Name, tag)]

\* Validator.AddValidTags: one tag of the loop body, then the rest.
AddOneTag(v, tag) ==
    [validSelfClosingTags |->
        IF tag.IsSelfClosing THEN v.validSelfClosingTags \cup {tag.Name}
        ELSE v.validSelfClosingTags,
     validTagMap |-> Put(v.validTagMap, tag.Name, Range(tag.Attrs)),
     validTags |-> Put(v.validTags, tag.Name, tag)]

RECURSIVE AddValidTags(_, _)
AddValidTags(v, tags) ==
    IF tags = << >> THEN v
    ELSE AddValidTags(AddOneTag(v, Head(tags)), Tail(tags))

EmptyValidator ==
    [validSelfClosingTags |-> {}, validTagMap |-> EmptyMap, validTags |-> EmptyMap]

\* Validator.IsValidTag
IsValidTag(tagName) == tagName \in DOMAIN validTagMap

\* Validator.IsValidSelfClosingTag
IsValidSelfClosingTag(tagName) == tagName \in validSelfClosingTags

\* regexp.MatchString for the patterns the rules use: "^h" matches the names
\* that start with h, any other pattern here matches nothing.
MatchString(re, name) ==
    IF re = "^h" THEN name \in {"href"} ELSE FALSE

\* IsValidAttribute that accepts an attribute allowed on any registered tag.
IsValidAttributeAnyTag(tagName, attrName) ==
    \E n \in DOMAIN validTagMap : attrName \in validTagMap[n]

\* IsValidAttribute that does not consult the global rule.
IsValidAttributeTagOnly(tagName, attrName) ==
    /\ tagName \in DOMAIN validTagMap
    /\ \/ attrName \in validTagMap[tagName]
       \/ /\ validTags[tagName].AttrRegEx /= ""
          /\ MatchString(validTags[tagName].AttrRegEx, attrName)

\* Validator.IsValidAttribute
IsValidAttribute(tagName, attrName) ==
    LET hasTag == tagName \in DOMAIN validTagMap
        hasGlobals == "" \in DOMAIN validTagMap
        globalOk ==
            /\ hasGlobals
            /\ \/ attrName \in validTagMap[""]
               \/ /\ validTags[""].AttrRegEx /= ""
                  /\ MatchString(validTags[""].AttrRegEx, attrName)
        tagOk ==
            /\ hasTag
            /\ \/ attrName \in validTagMap[tagName]
               \/ /\ validTags[tagName].AttrRegEx /= ""
                  /\ MatchString(validTags[tagName].AttrRegEx, attrName)
    IN globalOk \/ tagOk

----------------------------------------------------------------------------
\* Errors.  A *ValidationError is a sequence: << >> is nil, << e >> is an error.

ValidationError(tagName, attr, reason, span) ==
    [TagName |-> tagName, AttributeName |-> attr, Reason |-> reason, Pos |-> span,
     TextPos |-> << >>]

\* Validator.checkErrorCallback: the registered callback here returns nil.
checkErrorCallback(tagName, attr, span, reason) ==
    IF errorCallback /= "nil" THEN << >>
    ELSE << ValidationError(tagName, attr, reason, span) >>

\* One more invocation of the registered callback, if there is one.
Invoked == IF errorCallback /= "nil" THEN 1 ELSE 0

\* indexOf: 0-based index of the first occurrence, -1 if there is none.
indexOf(arr, val) ==
    IF \E i \in DOMAIN arr : arr[i] = val
    THEN (CHOOSE i \in DOMAIN arr :
            /\ arr[i] = val
            /\ \A j \in DOMAIN arr : arr[j] = val => i <= j) - 1
    ELSE -1

\* popLast that removes nothing.
popLastKeepsAll(list) == list

\* popLast
popLast(list) ==
    IF Len(list) = 0 THEN list ELSE SubSeq(list, 1, Len(list) - 1)

\* checkAttrs that never records the attributes it has seen.
RECURSIVE checkAttrsForgets(_, _, _, _, _, _)
checkAttrsForgets(tagName, attr, i, seen, pos, n) ==
    IF i > Len(attr) THEN [err |-> << >>, calls |-> n]
    ELSE
        LET key == attr[i]
            invalid == ~IsValidAttribute(tagName, key)
            e1 == IF invalid
                  THEN checkErrorCallback(tagName, key, pos, InvAttribute)
                  ELSE << >>
            n1 == IF invalid THEN n + Invoked ELSE n
            dup == key \in seen
            e2 == IF dup
                  THEN checkErrorCallback(tagName, key, pos, InvDuplicatedAttribute)
                  ELSE << >>
            n2 == IF dup THEN n1 + Invoked ELSE n1
        IN IF e1 /= << >> THEN [err |-> e1, calls |-> n1]
           ELSE IF e2 /= << >> THEN [err |-> e2, calls |-> n2]
           ELSE checkAttrsForgets(tagName, attr, i + 1, seen, pos, n2)

\* checkToken, the loop over token.Attr (lines 319-339), from attribute i on;
\* seen is the attrs map, n the callback invocations so far.
RECURSIVE checkAttrs(_, _, _, _, _, _)
checkAttrs(tagName, attr, i, seen, pos, n) ==
    IF i > Len(attr) THEN [err |-> << >>, calls |-> n]
    ELSE
        LET key == attr[i]
            invalid == ~IsValidAttribute(tagName, key)
            e1 == IF invalid
                  THEN checkErrorCallback(tagName, key, pos, InvAttribute)
                  ELSE << >>
            n1 == IF invalid THEN n + Invoked ELSE n
            dup == key \in seen
            e2 == IF dup
                  THEN checkErrorCallback(tagName, key, pos, InvDuplicatedAttribute)
                  ELSE << >>
            n2 == IF dup THEN n1 + Invoked ELSE n1
        IN IF e1 /= << >> THEN [err |-> e1, calls |-> n1]
           ELSE IF e2 /= << >> THEN [err |-> e2, calls |-> n2]
           ELSE checkAttrs(tagName, attr, i + 1, seen \cup {key}, pos, n2)

\* Variants of the end-tag resolution: "keepsMatch" truncates above the matched
\* entry instead of below it, "reportsNext" reports the entry right above the
\* matched one instead of the top, "checksClosed" tests the closed tag instead
\* of the top for self-closing, "popsUnmatched" pops the top when the closed
\* tag is not on the stack.
endTagResolutionVariant(tagName, stack, pos, variant) ==
    IF Len(stack) > 0 /\ stack[Len(stack)] = tagName
    THEN [parents |-> SubSeq(stack, 1, Len(stack) - 1), err |-> << >>, calls |-> 0]
    ELSE
        LET index == indexOf(stack, tagName) IN
        IF index > -1
        THEN LET missingTagName ==
                     IF variant = "reportsNext" THEN stack[index + 2]
                     ELSE stack[Len(stack)]
                 rest == IF variant = "keepsMatch" THEN SubSeq(stack, 1, index + 1)
                         ELSE SubSeq(stack, 1, index)
                 tested == IF variant = "checksClosed" THEN tagName
                           ELSE missingTagName
             IN IF ~IsValidSelfClosingTag(tested)
                THEN [parents |-> rest,
                      err |-> checkErrorCallback(missingTagName, "", pos,
                                                 InvNotProperlyClosed),
                      calls |-> Invoked]
                ELSE [parents |-> rest, err |-> << >>, calls |-> 0]
        ELSE [parents |-> IF variant = "popsUnmatched"
                          THEN SubSeq(stack, 1, Len(stack) - 1)
                          ELSE stack,
              err |-> checkErrorCallback(tagName, "", pos, InvClosedBeforeOpened),
              calls |-> Invoked]

endTagResolutionKeepsMatch(tagName, stack, pos) ==
    endTagResolutionVariant(tagName, stack, pos, "keepsMatch")

endTagResolutionReportsNext(tagName, stack, pos) ==
    endTagResolutionVariant(tagName, stack, pos, "reportsNext")

endTagResolutionChecksClosed(tagName, stack, pos) ==
    endTagResolutionVariant(tagName, stack, pos, "checksClosed")

endTagResolutionPopsUnmatched(tagName, stack, pos) ==
    endTagResolutionVariant(tagName, stack, pos, "popsUnmatched")

\* checkToken, end-tag resolution (lines 341-365).
endTagResolution(tagName, stack, pos) ==
    IF Len(stack) > 0 /\ stack[Len(stack)] = tagName
    THEN [parents |-> popLast(stack), err |-> << >>, calls |-> 0]
    ELSE
        LET index == indexOf(stack, tagName) IN
        IF index > -1
        THEN LET missingTagName == stack[Len(stack)]
                 rest == SubSeq(stack, 1, index)
             IN IF ~IsValidSelfClosingTag(missingTagName)
                THEN [parents |-> rest,
                      err |-> checkErrorCallback(missingTagName, "", pos,
                                                 InvNotProperlyClosed),
                      calls |-> Invoked]
                ELSE [parents |-> rest, err |-> << >>, calls |-> 0]
        ELSE [parents |-> stack,
              err |-> checkErrorCallback(tagName, "", pos, InvClosedBeforeOpened),
              calls |-> Invoked]

\* afterTagCheck that pushes start tokens only.
afterTagCheckSkipsSelfClosing(token, stack, pos, n) ==
    LET tagName == token.Data
        pushed == IF token.Type = StartTagToken THEN Append(stack, tagName)
                  ELSE stack
        a == checkAttrs(tagName, token.Attr, 1, {}, pos, n)
        r == endTagResolution(tagName, pushed, pos)
    IN IF a.err /= << >>
       THEN [parents |-> pushed, err |-> a.err, calls |-> a.calls]
       ELSE IF token.Type = EndTagToken
       THEN [parents |-> r.parents, err |-> r.err, calls |-> a.calls + r.calls]
       ELSE [parents |-> pushed, err |-> << >>, calls |-> a.calls]

\* afterTagCheck that pushes the tag only when its attributes passed.
afterTagCheckPushesAfterAttrs(token, stack, pos, n) ==
    LET tagName == token.Data
        pushed == IF token.Type \in {StartTagToken, SelfClosingTagToken}
                  THEN Append(stack, tagName)
                  ELSE stack
        a == checkAttrs(tagName, token.Attr, 1, {}, pos, n)
        r == endTagResolution(tagName, pushed, pos)
    IN IF a.err /= << >>
       THEN [parents |-> stack, err |-> a.err, calls |-> a.calls]
       ELSE IF token.Type = EndTagToken
       THEN [parents |-> r.parents, err |-> r.err, calls |-> a.calls + r.calls]
       ELSE [parents |-> pushed, err |-> << >>, calls |-> a.calls]

\* checkToken after the tag check (lines 314-368): the push, the attribute
\* loop and the end-tag resolution; n is the callback invocations so far.
afterTagCheck(token, stack, pos, n) ==
    LET tagName == token.Data
        pushed == IF token.Type \in {StartTagToken, SelfClosingTagToken}
                  THEN Append(stack, tagName)
                  ELSE stack
        a == checkAttrs(tagName, token.Attr, 1, {}, pos, n)
        r == endTagResolution(tagName, pushed, pos)
    IN IF a.err /= << >>
       THEN [parents |-> pushed, err |-> a.err, calls |-> a.calls]
       ELSE IF token.Type = EndTagToken
       THEN [parents |-> r.parents, err |-> r.err, calls |-> a.calls + r.calls]
       ELSE [parents |-> pushed, err |-> << >>, calls |-> a.calls]

\* checkToken that goes on with the token after reporting an unknown tag.
checkTokenNoReturn(token, stack, pos) ==
    IF token.Type \notin TagTokenTypes
    THEN [parents |-> stack, err |-> << >>, calls |-> 0]
    ELSE LET r == afterTagCheck(token, stack, pos, 0)
         IN IF ~IsValidTag(token.Data) /\ r.err = << >>
            THEN [parents |-> r.parents,
                  err |-> checkErrorCallback(token.Data, "", pos, InvTag),
                  calls |-> r.calls]
            ELSE r

\* checkToken that reports an unknown tag together with what the rest of the
\* check of the token finds.
checkTokenReportsAll(token, stack, pos) ==
    IF token.Type \notin TagTokenTypes
    THEN [parents |-> stack, err |-> << >>, calls |-> 0]
    ELSE LET r == afterTagCheck(token, stack, pos, 0)
         IN IF ~IsValidTag(token.Data)
            THEN [parents |-> r.parents,
                  err |-> checkErrorCallback(token.Data, "", pos, InvTag) \o r.err,
                  calls |-> r.calls + Invoked]
            ELSE r

\* checkToken that pushes the tag of a start or self-closing token before the
\* tag check.
checkTokenPushesUnknown(token, stack, pos) ==
    IF token.Type \notin TagTokenTypes
    THEN [parents |-> stack, err |-> << >>, calls |-> 0]
    ELSE IF ~IsValidTag(token.Data)
    THEN [parents |-> IF token.Type \in {StartTagToken, SelfClosingTagToken}
                      THEN Append(stack, token.Data)
                      ELSE stack,
          err |-> checkErrorCallback(token.Data, "", pos, InvTag),
          calls |-> Invoked]
    ELSE afterTagCheck(token, stack, pos, 0)

\* Validator.checkToken for a token that is not the ErrorToken.
checkToken(token, stack, pos) ==
    IF token.Type \notin TagTokenTypes
    THEN [parents |-> stack, err |-> << >>, calls |-> 0]
    ELSE
        LET tagName == token.Data
            unknown == ~IsValidTag(tagName)
            e1 == IF unknown
                  THEN checkErrorCallback(tagName, "", pos, InvTag)
                  ELSE << >>
            n1 == IF unknown THEN Invoked ELSE 0
        IN IF e1 /= << >>
           THEN [parents |-> stack, err |-> e1, calls |-> n1]
           ELSE afterTagCheck(token, stack, pos, n1)

\* checkParents that ends at the first entry it reports, suppressed or not.
RECURSIVE checkParentsFirstOnly(_, _, _, _)
checkParentsFirstOnly(stack, i, pos, n) ==
    IF i > Len(stack) THEN [err |-> << >>, calls |-> n]
    ELSE IF IsValidSelfClosingTag(stack[i])
    THEN checkParentsFirstOnly(stack, i + 1, pos, n)
    ELSE [err |-> checkErrorCallback(stack[i], "", pos, InvNotProperlyClosed),
          calls |-> n + Invoked]

\* checkParents that does not skip the self-closing entries.
RECURSIVE checkParentsNoSkip(_, _, _, _)
checkParentsNoSkip(stack, i, pos, n) ==
    IF i > Len(stack) THEN [err |-> << >>, calls |-> n]
    ELSE LET cError == checkErrorCallback(stack[i], "", pos, InvNotProperlyClosed)
         IN IF cError /= << >>
            THEN [err |-> cError, calls |-> n + Invoked]
            ELSE checkParentsNoSkip(stack, i + 1, pos, n + Invoked)

\* Validator.checkParents: the sweep over the stack from entry i on.
RECURSIVE checkParents(_, _, _, _)
checkParents(stack, i, pos, n) ==
    IF i > Len(stack) THEN [err |-> << >>, calls |-> n]
    ELSE IF IsValidSelfClosingTag(stack[i])
    THEN checkParents(stack, i + 1, pos, n)
    ELSE LET cError == checkErrorCallback(stack[i], "", pos, InvNotProperlyClosed)
         IN IF cError /= << >>
            THEN [err |-> cError, calls |-> n + Invoked]
            ELSE checkParents(stack, i + 1, pos, n + Invoked)

----------------------------------------------------------------------------
\* The input

RECURSIVE InputSize(_)
InputSize(input) ==
    IF input = << >> THEN 0
    ELSE 1 + Len(Head(input).Attr) + InputSize(Tail(input))

\* Attribute lists a next token may carry within the bound.
AttrLists == UNION {[1..n -> AttrKeys] : n \in 0..(MaxInput - InputSize(consumed) - 1)}

\* The raw span of the next token: tokens are numbered, each one unit wide.
getPosition == [Start |-> Len(consumed), End |-> Len(consumed) + 1]

----------------------------------------------------------------------------
\* The validator after TestMain's calls of AddValidTag.
RegisteredTestRules ==
    /\ LET v == AddValidTags(EmptyValidator, TestRules)
       IN /\ validTagMap = v.validTagMap
          /\ validSelfClosingTags = v.validSelfClosingTags
          /\ validTags = v.validTags
    /\ added = TestRules

\* A Validator{} after TestMain's registrations, with the given callback and
\* StopAfterFirstError, at the start of ValidateHtml.
Configured(callback, stop) ==
    /\ RegisteredTestRules
    /\ errorCallback = callback
    /\ StopAfterFirstError = stop
    /\ consumed = << >>
    /\ parents = << >>
    /\ errors = << >>
    /\ calls = 0
    /\ pc = "loop"
    /\ derr = "nil"
    /\ str = << >>

\* The default error strategy: no callback, StopAfterFirstError false.
Init == Configured("nil", FALSE)

\* afterCheckToken that never returns early.
afterCheckTokenNoStop(errs, err) ==
    IF err = << >> THEN [errors |-> errs, go |-> "continue"]
    ELSE IF err[1].Reason = InvEOF THEN [errors |-> errs, go |-> "break"]
    ELSE [errors |-> errs \o err, go |-> "continue"]

\* afterCheckToken that treats the end-of-input error as any other error.
afterCheckTokenAppendsEOF(errs, err) ==
    IF err = << >> THEN [errors |-> errs, go |-> "continue"]
    ELSE [errors |-> errs \o err,
          go |-> IF StopAfterFirstError THEN "return" ELSE "continue"]

\* ValidateHtml, lines 222-230: what the loop does with the error checkToken
\* returned; go is "continue", "break" or "return".
afterCheckToken(errs, err) ==
    IF err = << >> THEN [errors |-> errs, go |-> "continue"]
    ELSE IF err[1].Reason = InvEOF THEN [errors |-> errs, go |-> "break"]
    ELSE [errors |-> errs \o err,
          go |-> IF StopAfterFirstError THEN "return" ELSE "continue"]

\* One iteration of ValidateHtml's loop on a token that is not the ErrorToken.
LoopBody(token) ==
    /\ pc = "loop"
    /\ LET r == checkToken(token, parents, getPosition)
           l == afterCheckToken(errors, r.err)
       IN /\ consumed' = Append(consumed, token)
          /\ parents' = r.parents
          /\ calls' = calls + r.calls
          /\ errors' = l.errors
          /\ pc' = IF l.go = "return" THEN "stopped" ELSE "loop"
    /\ UNCHANGED << registry, derr, added, str >>

ReadStartTag ==
    \E name \in TagNames, attr \in AttrLists :
        LoopBody([Type |-> StartTagToken, Data |-> name, Attr |-> attr])

ReadEndTag ==
    \E name \in TagNames, attr \in AttrLists :
        LoopBody([Type |-> EndTagToken, Data |-> name, Attr |-> attr])

ReadSelfClosingTag ==
    \E name \in TagNames, attr \in AttrLists :
        LoopBody([Type |-> SelfClosingTagToken, Data |-> name, Attr |-> attr])

ReadText ==
    /\ InputSize(consumed) < MaxInput
    /\ LoopBody([Type |-> TextToken, Data |-> "", Attr |-> << >>])

\* The tokenizer delivers the ErrorToken, at the end of the input or on a
\* failure of the reader: checkToken returns the InvEOF error, the loop breaks
\* on it, checkParents sweeps the stack and ValidateHtml returns.
ErrorTokenStep(cause) ==
    /\ pc = "loop"
    /\ LET eof == << [TagName |-> "", AttributeName |-> "", Reason |-> InvEOF,
                      Pos |-> [Start |-> 0, End |-> 0], TextPos |-> << >>] >>
           l == afterCheckToken(errors, eof)
           pos == [Start |-> Len(consumed), End |-> Len(consumed)]
           r == checkParents(parents, 1, pos, 0)
       IN IF l.go = "break"
          THEN /\ errors' = l.errors \o r.err
               /\ calls' = calls + r.calls
               /\ pc' = "done"
          ELSE /\ errors' = l.errors
               /\ calls' = calls
               /\ pc' = IF l.go = "return" THEN "stopped" ELSE "loop"
    /\ derr' = cause
    /\ UNCHANGED << registry, consumed, parents, added, str >>

\* d.Err() is io.EOF.
EndOfInput == ErrorTokenStep("EOF")

\* d.Err() is an error of the reader.
ReadFailure == ErrorTokenStep("failure")

Next ==
    \/ ReadStartTag
    \/ ReadEndTag
    \/ ReadSelfClosingTag
    \/ ReadText
    \/ EndOfInput
    \/ ReadFailure

\* ValidateHtml with StopAfterFirstError false, as a function of the whole
\* input: the loop over the tokens, then the sweep.
RECURSIVE scanTokens(_)
scanTokens(input) ==
    IF input = << >> THEN [parents |-> << >>, errors |-> << >>]
    ELSE LET n == Len(input)
             p == scanTokens(SubSeq(input, 1, n - 1))
             r == checkToken(input[n], p.parents, [Start |-> n - 1, End |-> n])
         IN [parents |-> r.parents, errors |-> p.errors \o r.err]

ValidateHtmlNoStop(input) ==
    LET p == scanTokens(input)
        n == Len(input)
    IN p.errors \o checkParents(p.parents, 1, [Start |-> n, End |-> n], 0).err

Spec == Init /\ [][Next]_vars

\* StopAfterFirstError set, no callback.
InitStop == Configured("nil", TRUE)

SpecStop == InitStop /\ [][Next]_vars

\* No callback, StopAfterFirstError false or true.
InitEither == \E stop \in BOOLEAN : Configured("nil", stop)

SpecEither == InitEither /\ [][Next]_vars

\* A callback that always returns nil, StopAfterFirstError false.
InitCallback == Configured("suppress", FALSE)

SpecCallback == InitCallback /\ [][Next]_vars

----------------------------------------------------------------------------
\* Position translation (ValidateHtmlString after ValidateHtml)

Newline == "\n"

\* strings.Split(str, "\n")
RECURSIVE Split(_)
Split(text) ==
    IF \A i \in DOMAIN text : text[i] /= Newline THEN << text >>
    ELSE LET i == CHOOSE k \in DOMAIN text :
                    /\ text[k] = Newline
                    /\ \A j \in 1..(k - 1) : text[j] /= Newline
         IN << SubSeq(text, 1, i - 1) >> \o Split(SubSeq(text, i + 1, Len(text)))

\* textPos that does not count the delimiter of a line.
RECURSIVE textPosNoDelimiter(_, _, _, _)
textPosNoDelimiter(lines, i, charCount, start) ==
    IF i > Len(lines) THEN << >>
    ELSE LET lineLen == Len(lines[i])
         IN IF start < charCount + lineLen
            THEN << [Line |-> i, Column |-> start - charCount + 1] >>
            ELSE textPosNoDelimiter(lines, i + 1, charCount + lineLen, start)

\* updateLineColumns, the inner loop (lines 193-202) from line i on: the
\* TextPos of offset start, << >> when no line holds it.
RECURSIVE textPos(_, _, _, _)
textPos(lines, i, charCount, start) ==
    IF i > Len(lines) THEN << >>
    ELSE LET lineLen == Len(lines[i]) + 1
         IN IF start < charCount + lineLen
            THEN << [Line |-> i, Column |-> start - charCount + 1] >>
            ELSE textPos(lines, i + 1, charCount + lineLen, start)

\* updateLineColumns
updateLineColumns(text, errs) ==
    [j \in DOMAIN errs |->
        LET tPos == textPos(Split(text), 1, 0, errs[j].Pos.Start)
        IN IF tPos = << >> THEN errs[j] ELSE [errs[j] EXCEPT !.TextPos = tPos]]

\* Texts of letters and newlines.
Texts == UNION {[1..n -> {"x", Newline}] : n \in 0..MaxText}

\* Violations ValidateHtml can return for a text: the span inside the text.
ViolationsOf(text) ==
    {ValidationError("b", "", reason, [Start |-> k, End |-> k]) :
        reason \in {InvTag, InvNotProperlyClosed}, k \in 0..Len(text)}

\* ValidateHtmlString has the violations of ValidateHtml in hand.
InitLines ==
    /\ RegisteredTestRules
    /\ errorCallback = "nil"
    /\ StopAfterFirstError = FALSE
    /\ str \in Texts
    /\ errors \in UNION {[1..n -> ViolationsOf(str)] : n \in 1..MaxErrors}
    /\ consumed = << >>
    /\ parents = << >>
    /\ calls = 0
    /\ derr = "EOF"
    /\ pc = "translate"

UpdateLineColumns ==
    /\ pc = "translate"
    /\ errors' = updateLineColumns(str, errors)
    /\ pc' = "returned"
    /\ UNCHANGED << registry, consumed, parents, calls, derr, added, str >>

NextLines == UpdateLineColumns

SpecLines == InitLines /\ [][NextLines]_vars

----------------------------------------------------------------------------
\* Registration (AddValidTag on a Validator{})

RuleNames == {"", "a", "b"}

Rules ==
    [Name : RuleNames, Attrs : {<< >>, <<"id">>}, AttrRegEx : {"", "^h"},
     IsSelfClosing : BOOLEAN]

\* Validator{}: no rule registered yet.
InitRegistry ==
    /\ validTagMap = EmptyValidator.validTagMap
    /\ validSelfClosingTags = EmptyValidator.validSelfClosingTags
    /\ validTags = EmptyValidator.validTags
    /\ added = << >>
    /\ errorCallback = "nil"
    /\ StopAfterFirstError = FALSE
    /\ consumed = << >>
    /\ parents = << >>
    /\ errors = << >>
    /\ calls = 0
    /\ derr = "nil"
    /\ str = << >>
    /\ pc = "setup"

\* Validator.AddValidTag
AddValidTag(validTag) ==
    /\ pc = "setup"
    /\ Len(added) < MaxRegs
    /\ LET v == AddValidTags([validSelfClosingTags |-> validSelfClosingTags,
                              validTagMap |-> validTagMap,
                              validTags |-> validTags], << validTag >>)
       IN /\ validTagMap' = v.validTagMap
          /\ validSelfClosingTags' = v.validSelfClosingTags
          /\ validTags' = v.validTags
    /\ added' = Append(added, validTag)
    /\ UNCHANGED << errorCallback, StopAfterFirstError, consumed, parents,
                    errors, calls, pc, derr, str >>

NextRegistry == \E validTag \in Rules : AddValidTag(validTag)

SpecRegistry == InitRegistry /\ [][NextRegistry]_vars

----------------------------------------------------------------------------
\* Vocabulary of the properties, read from the registered rules.

Tag(type, name, attr) == [Type |-> type, Data |-> name, Attr |-> attr]

Registered(name) == name \in DOMAIN validTags

RegisteredSelfClosing(name) == Registered(name) /\ validTags[name].IsSelfClosing

\* attrName is in the allowed set, or matches the pattern, of the rule of name
\* or of the global rule.
Allowed(name, attrName) ==
    \E n \in {name, ""} :
        /\ Registered(n)
        /\ \/ attrName \in Range(validTags[n].Attrs)
           \/ /\ validTags[n].AttrRegEx /= ""
              /\ MatchString(validTags[n].AttrRegEx, attrName)

\* attr[i] repeats an earlier attribute of the same token.
Repeated(attr, i) == \E j \in 1..(i - 1) : attr[j] = attr[i]

Offending(name, attr) ==
    {i \in DOMAIN attr : ~Allowed(name, attr[i]) \/ Repeated(attr, i)}

CleanAttrs(name, attr) == Offending(name, attr) = {}

Min(S) == CHOOSE x \in S : \A y \in S : x <= y

IsTag(t) == t.Type \in TagTokenTypes

Opens(t) == t.Type \in {StartTagToken, SelfClosingTagToken}

\* A tag token that fails the tag check or an attribute check.
Blocked(t) == IsTag(t) /\ (~Registered(t.Data) \/ ~CleanAttrs(t.Data, t.Attr))

\* Reason, tag and attribute of a violation, and of a sequence of them.
Kind(e) == << e.Reason, e.TagName, e.AttributeName >>

Kinds(es) == [i \in DOMAIN es |-> Kind(es[i])]

\* The first violation of a blocked token.
Offence(t) ==
    IF ~Registered(t.Data) THEN << InvTag, t.Data, "" >>
    ELSE LET i == Min(Offending(t.Data, t.Attr))
         IN << IF ~Allowed(t.Data, t.Attr[i]) THEN InvAttribute
               ELSE InvDuplicatedAttribute,
               t.Data, t.Attr[i] >>

CountOf(es, reason) == Cardinality({i \in DOMAIN es : es[i].Reason = reason})

\* In a step: a token is read, the token, and the violations the step appends.
Reads == consumed' /= consumed

Tok == consumed'[Len(consumed')]

Emitted == SubSeq(errors', Len(errors) + 1, Len(errors'))

Top(stack) == stack[Len(stack)]

\* The entries below the first occurrence of name.
Below(stack, name) ==
    SubSeq(stack, 1, Min({i \in DOMAIN stack : stack[i] = name}) - 1)

----------------------------------------------------------------------------
\* C1

WronglyNested ==
    << Tag(StartTagToken, "b", << >>), Tag(StartTagToken, "c", << >>),
       Tag(EndTagToken, "b", << >>), Tag(EndTagToken, "c", << >>) >>

\* C1 as stated: <b><c></b></c> returns exactly one violation,
\* NotProperlyClosed for c.
C1_OneViolation ==
    (pc = "done" /\ consumed = WronglyNested) =>
        Kinds(errors) = << << InvNotProperlyClosed, "c", "" >> >>

\* C1 amended: after </b> the stack is empty and NotProperlyClosed c is the
\* only violation so far; the trailing </c> then finds nothing to close, so
\* the run returns NotProperlyClosed c followed by ClosedBeforeOpened c.
C1_TwoViolations ==
    /\ consumed = SubSeq(WronglyNested, 1, 3) =>
          /\ parents = << >>
          /\ Kinds(errors) = << << InvNotProperlyClosed, "c", "" >> >>
    /\ consumed = WronglyNested =>
          /\ parents = << >>
          /\ Kinds(errors) = << << InvNotProperlyClosed, "c", "" >>,
                                << InvClosedBeforeOpened, "c", "" >> >>

C1_Witness == pc = "done" /\ consumed = WronglyNested /\ Len(errors) = 2

----------------------------------------------------------------------------
\* C2

\* The open tags of an input read as a bracket sequence; ok is false once an
\* end token does not name the innermost open tag.
RECURSIVE Nesting(_)
Nesting(input) ==
    IF input = << >> THEN [ok |-> TRUE, open |-> << >>]
    ELSE LET p == Nesting(SubSeq(input, 1, Len(input) - 1))
             t == input[Len(input)]
         IN IF ~p.ok \/ ~IsTag(t) THEN p
            ELSE IF Opens(t) THEN [ok |-> TRUE, open |-> Append(p.open, t.Data)]
            ELSE IF p.open /= << >> /\ Top(p.open) = t.Data
            THEN [ok |-> TRUE, open |-> SubSeq(p.open, 1, Len(p.open) - 1)]
            ELSE [ok |-> FALSE, open |-> p.open]

\* C2: a properly nested input of registered tags with allowed, unrepeated
\* attributes has the innermost-first stack of its open tags (each end token
\* pops exactly the top), no violation during the scan, and none at the end
\* when no tag that is not self-closing is left open.
C2_ProperlyNested ==
    LET n == Nesting(consumed) IN
    (n.ok /\ \A i \in DOMAIN consumed : ~Blocked(consumed[i])) =>
        /\ parents = n.open
        /\ pc = "loop" => errors = << >>
        /\ (pc = "done" /\ \A i \in DOMAIN n.open : RegisteredSelfClosing(n.open[i]))
              => errors = << >>

C2_Witness ==
    /\ pc = "done"
    /\ errors = << >>
    /\ parents = << >>
    /\ Len(consumed) = 4
    /\ Nesting(consumed).ok
    /\ \A i \in DOMAIN consumed : IsTag(consumed[i]) /\ ~Blocked(consumed[i])
    /\ consumed[1].Data = "b" /\ consumed[2].Data = "a"

----------------------------------------------------------------------------
\* C3

\* C3 as stated: a tag token with an unregistered name yields exactly one
\* UnknownTag and its remaining checks still run: a start or self-closing
\* token is pushed, an attribute that is not allowed is reported, and an end
\* token whose name is not on the stack is reported as ClosedBeforeOpened.
C3_ChecksContinue ==
    [][(Reads /\ IsTag(Tok) /\ ~Registered(Tok.Data)) =>
          /\ CountOf(Emitted, InvTag) = 1
          /\ Opens(Tok) => parents' = Append(parents, Tok.Data)
          /\ (\E i \in DOMAIN Tok.Attr : ~Allowed(Tok.Data, Tok.Attr[i]))
                => CountOf(Emitted, InvAttribute) >= 1
          /\ (Tok.Type = EndTagToken /\ Tok.Data \notin Range(parents))
                => CountOf(Emitted, InvClosedBeforeOpened) = 1]_vars

\* C3 amended: under the default error strategy a tag token with an
\* unregistered name yields exactly one violation, UnknownTag for that name,
\* and the token is done with: nothing is pushed or popped and neither its
\* attributes nor its nesting are reported.
C3_UnknownTagReturns ==
    [][(Reads /\ IsTag(Tok) /\ ~Registered(Tok.Data)) =>
          /\ Kinds(Emitted) = << << InvTag, Tok.Data, "" >> >>
          /\ SubSeq(errors', 1, Len(errors)) = errors
          /\ parents' = parents]_vars

C3_Witness ==
    /\ Len(consumed) = 2
    /\ consumed[1] = Tag(StartTagToken, "b", << >>)
    /\ consumed[2] = Tag(StartTagToken, "art", << "href" >>)
    /\ parents = << "b" >>
    /\ Kinds(errors) = << << InvTag, "art", "" >> >>

----------------------------------------------------------------------------
\* C4

Swapped == << Tag(EndTagToken, "b", << >>), Tag(StartTagToken, "b", << >>) >>

SwappedResult ==
    (pc' = "done" /\ consumed' = Swapped) =>
        Kinds(errors') = << << InvClosedBeforeOpened, "b", "" >>,
                            << InvNotProperlyClosed, "b", "" >> >>

\* C4 as stated: an end token whose name is nowhere on the stack yields
\* exactly one ClosedBeforeOpened for that name and leaves the stack as it
\* is; </b><b> returns ClosedBeforeOpened b, NotProperlyClosed b.
C4_ClosedBeforeOpened ==
    [][/\ (Reads /\ Tok.Type = EndTagToken /\ Tok.Data \notin Range(parents)) =>
             /\ Kinds(Emitted) = << << InvClosedBeforeOpened, Tok.Data, "" >> >>
             /\ parents' = parents
       /\ SwappedResult]_vars

\* C4 amended: such an end token leaves the stack as it is and yields exactly
\* one violation: UnknownTag if its name is not registered, else its first
\* attribute violation if it carries an attribute that is not allowed or is
\* repeated, else ClosedBeforeOpened for its name; </b><b> returns
\* ClosedBeforeOpened b, NotProperlyClosed b.
C4_OneViolationStackKept ==
    [][/\ (Reads /\ Tok.Type = EndTagToken /\ Tok.Data \notin Range(parents)) =>
             /\ Kinds(Emitted) =
                   << IF Blocked(Tok) THEN Offence(Tok)
                      ELSE << InvClosedBeforeOpened, Tok.Data, "" >> >>
             /\ SubSeq(errors', 1, Len(errors)) = errors
             /\ parents' = parents
       /\ SwappedResult]_vars

C4_Witness ==
    /\ pc = "done"
    /\ consumed = Swapped
    /\ parents = << "b" >>
    /\ Len(errors) = 2
    /\ errors[1].Reason = InvClosedBeforeOpened

----------------------------------------------------------------------------
\* C5 and C6

\* The token closes a tag that is on the stack below the top.
Mismatch ==
    /\ Reads
    /\ Tok.Type = EndTagToken
    /\ Tok.Data \in Range(parents)
    /\ Top(parents) /= Tok.Data

\* A token that fails its tag or attribute check yields that one violation
\* and does not reach the end-tag resolution.
BlockedStep ==
    /\ Kinds(Emitted) = << Offence(Tok) >>
    /\ parents' = parents

----------------------------------------------------------------------------
\* C7

Unclosed(stack) == {i \in DOMAIN stack : ~RegisteredSelfClosing(stack[i])}

\* C7: at end of input the sweep appends exactly one NotProperlyClosed, for
\* the earliest opened entry that is not self-closing, if there is one, and
\* nothing otherwise; the stack is left as it is.
C7_Sweep ==
    [][(pc = "loop" /\ pc' = "done") =>
          /\ Kinds(Emitted) =
                IF Unclosed(parents) = {} THEN << >>
                ELSE << << InvNotProperlyClosed, parents[Min(Unclosed(parents))], "" >> >>
          /\ SubSeq(errors', 1, Len(errors)) = errors
          /\ parents' = parents]_vars

C7_Witness ==
    /\ pc = "done"
    /\ parents = << "a", "b", "c" >>
    /\ Kinds(errors) = << << InvNotProperlyClosed, "b", "" >> >>

----------------------------------------------------------------------------
\* C8 and C9

NotAllowed(t) == {i \in DOMAIN t.Attr : ~Allowed(t.Data, t.Attr[i])}

Repeats(t) == {i \in DOMAIN t.Attr : Repeated(t.Attr, i)}

\* The first offending attribute of the token is one that is not allowed.
FirstIsNotAllowed(t) ==
    /\ Offending(t.Data, t.Attr) /= {}
    /\ Min(Offending(t.Data, t.Attr)) \in NotAllowed(t)

\* C8 as stated: every attribute occurrence that is not allowed yields one
\* UnknownAttribute, so a token with n of them yields n.
C8_EveryOccurrence ==
    [][(Reads /\ IsTag(Tok)) =>
          CountOf(Emitted, InvAttribute) = Cardinality(NotAllowed(Tok))]_vars

\* C8 amended: a token yields at most one UnknownAttribute: exactly one, and
\* no other violation, for the first attribute occurrence that is not
\* allowed, when the tag is registered and no earlier attribute of the token
\* is a repeat; none otherwise.
C8_FirstOccurrence ==
    [][(Reads /\ IsTag(Tok)) =>
          IF Registered(Tok.Data) /\ FirstIsNotAllowed(Tok)
          THEN Kinds(Emitted) =
                   << << InvAttribute, Tok.Data,
                         Tok.Attr[Min(Offending(Tok.Data, Tok.Attr))] >> >>
          ELSE CountOf(Emitted, InvAttribute) = 0]_vars

C8_Witness ==
    /\ consumed = << Tag(StartTagToken, "b", << "href", "href" >>) >>
    /\ parents = << "b" >>
    /\ Kinds(errors) = << << InvAttribute, "b", "href" >> >>

\* C9 as stated: each repeated appearance of an attribute name in a token
\* yields one DuplicatedAttribute, on top of the UnknownAttribute of every
\* occurrence that is not allowed.
C9_DuplicateAndValidity ==
    [][(Reads /\ IsTag(Tok) /\ Repeats(Tok) /= {}) =>
          /\ CountOf(Emitted, InvDuplicatedAttribute) = Cardinality(Repeats(Tok))
          /\ CountOf(Emitted, InvAttribute) = Cardinality(NotAllowed(Tok))]_vars

\* C9 amended: a token yields at most one DuplicatedAttribute: exactly one,
\* and no other violation, for the first repeated appearance of a name, when
\* the tag is registered and that name and every earlier attribute of the
\* token are allowed; none otherwise (a repeated name that is not allowed
\* yields the UnknownAttribute of its first occurrence only).
C9_FirstDuplicate ==
    [][(Reads /\ IsTag(Tok)) =>
          IF /\ Registered(Tok.Data)
             /\ Offending(Tok.Data, Tok.Attr) /= {}
             /\ ~FirstIsNotAllowed(Tok)
          THEN Kinds(Emitted) =
                   << << InvDuplicatedAttribute, Tok.Data,
                         Tok.Attr[Min(Offending(Tok.Data, Tok.Attr))] >> >>
          ELSE CountOf(Emitted, InvDuplicatedAttribute) = 0]_vars

C9_Witness ==
    /\ consumed = << Tag(StartTagToken, "a", << "href", "href" >>) >>
    /\ parents = << "a" >>
    /\ Kinds(errors) = << << InvDuplicatedAttribute, "a", "href" >> >>

----------------------------------------------------------------------------
\* C10

\* A start or self-closing token of a registered self-closing tag whose
\* attributes are all allowed and unrepeated.
CleanSelfClosing(t) ==
    Opens(t) /\ RegisteredSelfClosing(t.Data) /\ CleanAttrs(t.Data, t.Attr)

\* C10: an input that opens registered self-closing tags with allowed,
\* unrepeated attributes, the last of them closed by a matching end tag or
\* not, returns no violation.
C10_SelfClosingNoViolation ==
    LET n == Len(consumed)
        opensOnly(k) == \A i \in 1..k : CleanSelfClosing(consumed[i])
    IN (/\ pc = "done"
        /\ n > 0
        /\ \/ opensOnly(n)
           \/ /\ n > 1
              /\ opensOnly(n - 1)
              /\ consumed[n].Type = EndTagToken
              /\ consumed[n].Data = consumed[n - 1].Data
              /\ CleanAttrs(consumed[n].Data, consumed[n].Attr))
       => errors = << >>

C10_Witness ==
    /\ pc = "done"
    /\ consumed = << Tag(StartTagToken, "a", << "href" >>) >>
    /\ parents = << "a" >>
    /\ errors = << >>

----------------------------------------------------------------------------
\* C11

\* Tokens without attributes, as the unread rest of an input.
BareTokens ==
    {Tag(ty, name, << >>) : ty \in TagTokenTypes, name \in TagNames}
        \cup {Tag(TextToken, "", << >>)}

\* C11: with StopAfterFirstError set the run returns at most one violation;
\* while it scans it has none; it returns none exactly when the run without
\* the option returns none on the same input, and otherwise the first
\* violation of that run (whatever follows the token it stopped at).
C11_StopAfterFirst ==
    /\ pc = "loop" => errors = << >>
    /\ pc = "done" =>
          LET off == ValidateHtmlNoStop(consumed)
          IN /\ Len(errors) <= 1
             /\ errors = << >> <=> off = << >>
             /\ errors /= << >> => errors[1] = off[1]
    /\ pc = "stopped" =>
          /\ Len(errors) = 1
          /\ errors[1] = ValidateHtmlNoStop(consumed)[1]
          /\ \A t \in BareTokens :
                errors[1] = ValidateHtmlNoStop(Append(consumed, t))[1]

C11_Witness ==
    /\ pc = "stopped"
    /\ consumed = << Tag(EndTagToken, "b", << >>) >>
    /\ Len(ValidateHtmlNoStop(Swapped)) = 2
    /\ errors = << ValidateHtmlNoStop(Swapped)[1] >>

----------------------------------------------------------------------------
\* C12

\* The violations a scan detects when none of them ends a token: per tag
\* token the unknown tag, every attribute occurrence that is not allowed,
\* every repeated appearance, and the outcome of closing; with the stack the
\* tokens leave.
RECURSIVE Detected(_)
Detected(input) ==
    IF input = << >> THEN [stack |-> << >>, count |-> 0]
    ELSE LET p == Detected(SubSeq(input, 1, Len(input) - 1))
             t == input[Len(input)]
             own == (IF Registered(t.Data) THEN 0 ELSE 1)
                       + Cardinality(NotAllowed(t)) + Cardinality(Repeats(t))
         IN IF ~IsTag(t) THEN p
            ELSE IF Opens(t)
            THEN [stack |-> Append(p.stack, t.Data), count |-> p.count + own]
            ELSE IF p.stack /= << >> /\ Top(p.stack) = t.Data
            THEN [stack |-> SubSeq(p.stack, 1, Len(p.stack) - 1),
                  count |-> p.count + own]
            ELSE IF t.Data \in Range(p.stack)
            THEN [stack |-> Below(p.stack, t.Data),
                  count |-> p.count + own
                              + IF RegisteredSelfClosing(Top(p.stack)) THEN 0 ELSE 1]
            ELSE [stack |-> p.stack, count |-> p.count + own + 1]

\* C12: with a callback that always returns nil the violation sequence stays
\* empty and the callback has been invoked once per violation detected so
\* far, the sweep reporting every open entry that is not self-closing.
C12_SuppressingCallback ==
    LET d == Detected(consumed) IN
    /\ errors = << >>
    /\ parents = d.stack
    /\ pc = "loop" => calls = d.count
    /\ pc = "done" => calls = d.count + Cardinality(Unclosed(d.stack))

C12_Witness ==
    /\ pc = "done"
    /\ consumed = << Tag(StartTagToken, "b", << "href" >>),
                     Tag(StartTagToken, "c", << >>) >>
    /\ errors = << >>
    /\ calls = 3

----------------------------------------------------------------------------
\* C13

NewlinesBefore(text, k) == {i \in 1..k : text[i] = Newline}

\* Offset of the first byte of the line that holds offset k.
LineStart(text, k) ==
    IF NewlinesBefore(text, k) = {} THEN 0
    ELSE CHOOSE i \in NewlinesBefore(text, k) :
            \A j \in NewlinesBefore(text, k) : j <= i

\* C13: the translation keeps the violations, their order, reasons and spans
\* and sets each one's line to 1 + the newlines before its start offset k and
\* its column to k - (start of that line) + 1, both at least 1; on a text of
\* one line that is line 1, column k + 1.
C13_LineColumn ==
    [][(pc = "translate" /\ pc' = "returned") =>
          /\ Len(errors') = Len(errors)
          /\ \A j \in DOMAIN errors :
                LET k == errors[j].Pos.Start
                    line == 1 + Cardinality(NewlinesBefore(str, k))
                    column == k - LineStart(str, k) + 1
                IN /\ errors'[j] =
                        [errors[j] EXCEPT
                            !.TextPos = << [Line |-> line, Column |-> column] >>]
                   /\ line >= 1 /\ column >= 1
                   /\ (\A i \in DOMAIN str : str[i] /= Newline) =>
                         errors'[j].TextPos = << [Line |-> 1, Column |-> k + 1] >>]_vars

C13_Witness ==
    /\ pc = "returned"
    /\ str = << "x", Newline, "x" >>
    /\ Len(errors) = 2
    /\ errors[1].Pos.Start = 1 /\ errors[1].TextPos = << [Line |-> 1, Column |-> 2] >>
    /\ errors[2].Pos.Start = 2 /\ errors[2].TextPos = << [Line |-> 2, Column |-> 1] >>

----------------------------------------------------------------------------
\* C14, C15

\* The AddValidTag calls made under a name, and the last of them.
RulesNamed(name) == {i \in DOMAIN added : added[i].Name = name}

HasRule(name) == RulesNamed(name) /= {}

LastRule(name) ==
    added[CHOOSE i \in RulesNamed(name) : \A j \in RulesNamed(name) : j <= i]

RuleAllows(rule, attrName) ==
    \/ attrName \in Range(rule.Attrs)
    \/ rule.AttrRegEx /= "" /\ MatchString(rule.AttrRegEx, attrName)

AllowedByRules(tagName, attrName) ==
    \/ HasRule("") /\ RuleAllows(LastRule(""), attrName)
    \/ HasRule(tagName) /\ RuleAllows(LastRule(tagName), attrName)

\* C14: IsValidAttribute(tagName, attrName) is true exactly when attrName is in
\* the allowed set or matches the pattern of the global rule, or tagName is
\* registered and attrName is in the allowed set or matches the pattern of its
\* rule; so it is false for an unregistered tag when the global rule does not
\* match.
C14_IsValidAttribute ==
    \A tagName \in RuleNames \cup {"c"}, attrName \in AttrKeys :
        /\ IsValidAttribute(tagName, attrName) <=> AllowedByRules(tagName, attrName)
        /\ (~HasRule(tagName) /\ ~(HasRule("") /\ RuleAllows(LastRule(""), attrName)))
              => ~IsValidAttribute(tagName, attrName)

\* An unregistered tag is valid through the pattern of the global rule only.
C14_Witness ==
    /\ HasRule("") /\ HasRule("a") /\ ~HasRule("b")
    /\ IsValidAttribute("b", "href") /\ ~IsValidAttribute("b", "id")
    /\ IsValidAttribute("a", "id")

\* C15: after any sequence of AddValidTag calls IsValidTag, IsValidSelfClosingTag
\* and IsValidAttribute answer for a name as if only the last rule registered
\* under that name had been registered.
C15_LastWriteWins ==
    \A name \in RuleNames :
        /\ IsValidTag(name) <=> HasRule(name)
        /\ IsValidSelfClosingTag(name) <=>
              (HasRule(name) /\ LastRule(name).IsSelfClosing)
        /\ \A attrName \in AttrKeys :
              IsValidAttribute(name, attrName) <=> AllowedByRules(name, attrName)

\* All of C15 but the self-closing flag, which a later rule only ever sets.
C15_Overwrites ==
    \A name \in RuleNames :
        /\ IsValidTag(name) <=> HasRule(name)
        /\ IsValidSelfClosingTag(name) <=>
              \E i \in RulesNamed(name) : added[i].IsSelfClosing
        /\ \A attrName \in AttrKeys :
              IsValidAttribute(name, attrName) <=> AllowedByRules(name, attrName)

\* A tag registered as self-closing, then as not self-closing.
C15_Witness ==
    /\ Len(added) = 2
    /\ added[1].Name = "a" /\ added[1].IsSelfClosing
    /\ added[2].Name = "a" /\ ~added[2].IsSelfClosing
    /\ IsValidSelfClosingTag("a")

----------------------------------------------------------------------------
\* C16

\* C16: when the token source reports a failure that is not the end of the
\* input, the scan halts at once with a fatal outcome of its own, distinct
\* from the end of a scan that reached the end of the input, and the
\* violations collected so far are returned as they are.
C16_FailureIsFatal ==
    [][(pc = "loop" /\ derr' = "failure") =>
          (pc' = "failed" /\ errors' = errors)]_vars

\* A read failure after an open <b>: the scan ends as at the end of the input,
\* the sweep included.
C16_Witness ==
    /\ derr = "failure"
    /\ pc = "done"
    /\ consumed = << Tag("StartTag", "b", << >>) >>
    /\ errors = << ValidationError("b", "", InvNotProperlyClosed,
                                   [Start |-> 1, End |-> 1]) >>

----------------------------------------------------------------------------
\* C17

ReasonCodes ==
    {InvTag, InvAttribute, InvClosedBeforeOpened, InvNotProperlyClosed,
     InvDuplicatedAttribute}

----------------------------------------------------------------------------
\* C18

TagTokens(input) == {i \in DOMAIN input : IsTag(input[i])}

\* C18: under the default strategy a token contributes at most one violation
\* and the sweep at most one: the violations are in the order of the tokens
\* they were found on, no two on the same token and none on a token that is
\* not a tag, the sweep's violation comes last, and after n tag tokens there
\* are at most n violations, n + 1 once the sweep has run.
C18_AtMostOnePerToken ==
    /\ Len(errors) <= Cardinality(TagTokens(consumed)) + (IF pc = "done" THEN 1 ELSE 0)
    /\ \A i, j \in DOMAIN errors :
          i < j => errors[i].Pos.Start < errors[j].Pos.Start
    /\ \A i \in DOMAIN errors :
          LET k == errors[i].Pos.Start
          IN IF k < Len(consumed) THEN (k + 1) \in TagTokens(consumed)
             ELSE /\ k = Len(consumed)
                  /\ pc = "done"
                  /\ i = Len(errors)
                  /\ errors[i].Reason = InvNotProperlyClosed

\* One tag token and a text: a violation on the tag and one of the sweep.
C18_Witness ==
    /\ pc = "done"
    /\ Len(consumed) = 2
    /\ consumed[1] = Tag(StartTagToken, "b", << "href" >>)
    /\ consumed[2].Type = TextToken
    /\ Kinds(errors) = << << InvAttribute, "b", "href" >>,
                          << InvNotProperlyClosed, "b", "" >> >>

----------------------------------------------------------------------------
\* C19

\* The names of the start and self-closing tokens of an input, in order.
RECURSIVE Opened(_)
Opened(input) ==
    IF input = << >> THEN << >>
    ELSE (IF Opens(Head(input)) THEN << Head(input).Data >> ELSE << >>)
            \o Opened(Tail(input))

\* s is t with some of its elements left out.
RECURSIVE IsSubseq(_, _)
IsSubseq(s, t) ==
    IF s = << >> THEN TRUE
    ELSE IF t = << >> THEN FALSE
    ELSE IF Head(s) = Head(t) THEN IsSubseq(Tail(s), Tail(t))
    ELSE IsSubseq(s, Tail(t))

\* C19: the stack is a subsequence of the names of the start and self-closing
\* tokens consumed so far.  A start or self-closing token appends its name (a
\* registered tag) or leaves the stack as it is; an end token leaves it, pops
\* the top (the top is the tag) or truncates it to the entries below the first
\* entry of the tag; a token of another kind and the end of the input leave
\* it as it is.  So a self-closing entry stays until an end token removes it.
C19_ParentStack ==
    [][pc = "loop" =>
          /\ IsSubseq(parents', Opened(consumed'))
          /\ ~Reads => parents' = parents
          /\ (Reads /\ ~IsTag(Tok)) => parents' = parents
          /\ (Reads /\ Opens(Tok)) =>
                parents' = IF Registered(Tok.Data)
                           THEN Append(parents, Tok.Data)
                           ELSE parents
          /\ (Reads /\ Tok.Type = EndTagToken) =>
                parents' = IF Blocked(Tok) THEN parents
                           ELSE IF parents /= << >> /\ Top(parents) = Tok.Data
                           THEN SubSeq(parents, 1, Len(parents) - 1)
                           ELSE IF Tok.Data \in Range(parents)
                           THEN Below(parents, Tok.Data)
                           ELSE parents]_vars

\* A self-closing entry stays below a later entry and goes when an end token
\* of an entry below it truncates the stack.
C19_Witness ==
    /\ consumed = << Tag(StartTagToken, "b", << >>),
                     Tag(SelfClosingTagToken, "a", << >>),
                     Tag(TextToken, "", << >>),
                     Tag(EndTagToken, "b", << >>) >>
    /\ parents = << >>
    /\ errors = << >>

----------------------------------------------------------------------------
\* C20

\* The input without attribute k of token i.
WithoutAttr(input, i, k) ==
    [input EXCEPT ![i].Attr =
        SubSeq(input[i].Attr, 1, k - 1) \o SubSeq(input[i].Attr, k + 1, Len(input[i].Attr))]

\* Token i of the input opens a registered tag and is the only defect of the
\* input: without its attribute k the input has no violation.
OnlyDefect(input, i, k) ==
    /\ Opens(input[i])
    /\ Registered(input[i].Data)
    /\ ~CleanAttrs(input[i].Data, input[i].Attr)
    /\ ValidateHtmlNoStop(WithoutAttr(input, i, k)) = << >>

\* C20: a start or self-closing token of a registered tag with an attribute
\* violation is pushed all the same and yields that one violation; an end
\* token of the tag on top of the stack then yields none; and an input whose
\* only defect is one such attribute returns exactly one violation, the
\* attribute's, on its token.
C20_AttributeKeepsNesting ==
    [][pc = "loop" =>
          /\ (Reads /\ Opens(Tok) /\ Registered(Tok.Data)
                    /\ ~CleanAttrs(Tok.Data, Tok.Attr)) =>
                /\ parents' = Append(parents, Tok.Data)
                /\ Kinds(Emitted) = << Offence(Tok) >>
                /\ LET r == checkToken(Tag(EndTagToken, Tok.Data, << >>), parents',
                                       [Start |-> Len(consumed'), End |-> Len(consumed') + 1])
                   IN r.err = << >> /\ r.parents = parents
          /\ pc' = "done" =>
                \A i \in DOMAIN consumed : \A k \in DOMAIN consumed[i].Attr :
                    OnlyDefect(consumed, i, k) =>
                        /\ Kinds(errors') = << Offence(consumed[i]) >>
                        /\ errors'[1].Pos.Start = i - 1]_vars

\* <b href><a></b> and <b><a id></b>: one violation each, for the attribute.
C20_Witness ==
    /\ pc = "done"
    /\ \/ /\ consumed = << Tag(StartTagToken, "b", << "href" >>),
                           Tag(StartTagToken, "a", << >>),
                           Tag(EndTagToken, "b", << >>) >>
          /\ Kinds(errors) = << << InvAttribute, "b", "href" >> >>
       \/ /\ consumed = << Tag(StartTagToken, "b", << >>),
                           Tag(StartTagToken, "a", << "id" >>),
                           Tag(EndTagToken, "b", << >>) >>
          /\ Kinds(errors) = << << InvAttribute, "a", "id" >> >>

----------------------------------------------------------------------------
\* C21

\* C21: with no callback registered every entry of the parent stack is a
\* registered tag name at every point of the scan, and no NotProperlyClosed
\* violation, of the mismatch recovery or of the sweep, names a tag that is
\* not registered.
C21_StackIsRegistered ==
    /\ \A i \in DOMAIN parents : Registered(parents[i])
    /\ \A i \in DOMAIN errors :
          errors[i].Reason = InvNotProperlyClosed => Registered(errors[i].TagName)

\* <b><art></b><c>: the unknown tag is reported and not pushed, the recovery
\* has nothing to name, and the sweep names c.
C21_Witness ==
    /\ pc = "done"
    /\ consumed = << Tag(StartTagToken, "b", << >>),
                     Tag(StartTagToken, "art", << >>),
                     Tag(EndTagToken, "b", << >>),
                     Tag(StartTagToken, "c", << >>) >>
    /\ parents = << "c" >>
    /\ Kinds(errors) = << << InvTag, "art", "" >>,
                          << InvNotProperlyClosed, "c", "" >> >>

====
